---- MODULE Spec2Model ----
(***************************************************************************)
(* GitView (src/src/app/page.tsx): the Home component's state, the         *)
(* submission / fetch handlers, and the chartData aggregation (useMemo)    *)
(* that turns the held commit list into a global daily series and a        *)
(* per-contributor breakdown.                                              *)
(*                                                                         *)
(* Time is measured in ticks; TicksPerDay ticks make one day.  A Date is   *)
(* the number of ticks since 1970-01-01T00:00Z.  The browser's local time  *)
(* zone is tz ticks east of UTC.                                           *)
(***************************************************************************)
EXTENDS Integers, Sequences, FiniteSets, TLC

VARIABLES
  tz,          \* the browser's UTC offset, in ticks (environment)
  dateParse,   \* what the engine's Date constructor does with 'MMM dd'
  now,         \* the wall clock, the value of new Date()
  commits,     \* useState<Commit[]>([])
  repoInfo,    \* useState<{owner, repo, url} | null>(null)
  timeRange,   \* useState('all_time')
  chartData,   \* the memoized value of useMemo(..., [commits, timeRange])
  endDate,     \* the `new Date()` captured by the memo run that built chartData
  inflight,    \* the fetchCommits calls that have not settled, oldest first
  toast,       \* the description of the last toast shown, if any
  location,    \* the repo query parameter of the address bar, if any
  response,    \* what GitHub answered to the last fetchCommits call looked at on its own
  result,      \* what that call resolved to
  selectedCommit,  \* useState<Commit | null>(null)
  isRewriting,     \* useState(false)
  rewriteData,     \* useState<{original, rewritten} | null>(null)
  copied,          \* useState(false)
  rewrites,    \* the rewriteCommitWithAI calls that have not settled, oldest first
  timers       \* the pending setTimeout(() => setCopied(false), 2000) callbacks

\* the state of the rewrite dialog
rewriteVars == <<selectedCommit, isRewriting, rewriteData, copied, rewrites, timers>>

vars == <<tz, dateParse, now, commits, repoInfo, timeRange, chartData, endDate, inflight, toast,
          location, response, result, rewriteVars>>

----------------------------------------------------------------------------
(* Bounds *)

TicksPerDay == 2   \* clock resolution: ticks per day
MaxCommits == 3    \* length of the commit lists the aggregator is applied to
MaxTick == 1       \* ticks the clock advances during a session
MaxInFlight == 2   \* fetches in flight at once
MaxRewrites == 2   \* rewrite requests in flight at once
MaxTimers == 1     \* copy timers pending at once

----------------------------------------------------------------------------
(* Values *)

\* null where a string is expected, and null where an object is expected
NULL == "null"
NullObject == [null |-> TRUE]

\* a JavaScript number: NaN, or the integer v
NaN == [nan |-> TRUE, v |-> 0]
Num(n) == [nan |-> FALSE, v |-> n]


\* an array built by Array.from / map: every element is computed once
Array(f) == SubSeq(f, 1, Len(f))

TimeRanges == {"this_week", "this_month", "all_time"}
TimeZones == {-1, 0, 1}
DateParsers == {"legacy", "invalid"}

----------------------------------------------------------------------------
(* The proleptic Gregorian calendar of JavaScript's Date *)

\* days since 1970-01-01 of the civil date y-m-d
DaysFromCivil(y, m, d) ==
  LET yy == IF m <= 2 THEN y - 1 ELSE y
      era == yy \div 400
      yoe == yy - era * 400
      mp == IF m > 2 THEN m - 3 ELSE m + 9
      doy == (153 * mp + 2) \div 5 + d - 1
      doe == yoe * 365 + yoe \div 4 - yoe \div 100 + doy
  IN era * 146097 + doe - 719468

\* the civil date <<y, m, d>> of a day number
CivilFromDays(z) ==
  LET zz == z + 719468
      era == zz \div 146097
      doe == zz - era * 146097
      yoe == (doe - doe \div 1460 + doe \div 36524 - doe \div 146096) \div 365
      doy == doe - (365 * yoe + yoe \div 4 - yoe \div 100)
      mp == (5 * doy + 2) \div 153
      d == doy - (153 * mp + 2) \div 5 + 1
      m == IF mp < 10 THEN mp + 3 ELSE mp - 9
      y == yoe + era * 400
  IN <<IF m <= 2 THEN y + 1 ELSE y, m, d>>

\* Date.prototype.getDay() of a day number: 0 = Sunday ... 6 = Saturday
GetDay(z) == (z + 4) % 7

\* the local calendar day a Date falls on
LocalDay(t, zone) == (t + zone) \div TicksPerDay

\* the Date of local midnight of a day number
LocalMidnight(z, zone) == z * TicksPerDay - zone

\* the Date of a commit's ISO 8601 author date
At(y, m, d, k) == DaysFromCivil(y, m, d) * TicksPerDay + k

----------------------------------------------------------------------------
(* date-fns and Date, as chartData uses them *)

\* startOfWeek(date) with the default weekStartsOn: 0, the Sunday at or before date
startOfWeekSunday(t, zone) ==
  LET z == LocalDay(t, zone)
  IN LocalMidnight(z - GetDay(z), zone)

\* startOfISOWeek(date): local midnight of the Monday at or before date
startOfISOWeek(t, zone) ==
  LET z == LocalDay(t, zone)
      day == GetDay(z)
      diff == (IF day < 1 THEN 7 ELSE 0) + day - 1
  IN LocalMidnight(z - diff, zone)

\* startOfDay(date): local midnight of date's own day
startOfDay(t, zone) == LocalMidnight(LocalDay(t, zone), zone)

\* startOfMonth(date): local midnight of the first day of date's month
startOfMonth(t, zone) ==
  LET c == CivilFromDays(LocalDay(t, zone))
  IN LocalMidnight(DaysFromCivil(c[1], c[2], 1), zone)

\* eachDayOfInterval({start, end}): the local midnights of the days from
\* start's day to end's day; in reverse when start is after end
eachDayOfInterval(start, end, zone) ==
  LET reversed == start > end
      first == LocalDay(IF reversed THEN end ELSE start, zone)
      last == LocalDay(IF reversed THEN start ELSE end, zone)
      n == last - first + 1
  IN Array([i \in 1..n |-> LocalMidnight(IF reversed THEN last - (i - 1) ELSE first + (i - 1), zone)])

\* format(d, 'yyyy-MM-dd'): the local calendar date as <<y, m, d>>
formatISO(t, zone) == CivilFromDays(LocalDay(t, zone))

\* new Date('yyyy-MM-dd'): a date-only ISO string is UTC midnight
newDateISO(key) == DaysFromCivil(key[1], key[2], key[3]) * TicksPerDay

\* format(d, 'MMM dd'): the local month and day as <<m, d>>, the year is dropped
formatLabel(t, zone) ==
  LET c == CivilFromDays(LocalDay(t, zone)) IN <<c[2], c[3]>>

\* new Date('MMM dd').getTime(): not an ISO string, so the result is up to the
\* engine: the legacy parser takes year 2001 and local time, and lets the day
\* run over the end of the month; a strict engine gives an Invalid Date
newDateLabelTime(label, zone, parser) ==
  IF parser = "legacy"
  THEN Num(LocalMidnight(DaysFromCivil(2001, label[1], 1) + label[2] - 1, zone))
  ELSE NaN

\* a - b on numbers, NaN when either is NaN
TimeDiff(a, b) == IF a.nan \/ b.nan THEN NaN ELSE Num(a.v - b.v)

----------------------------------------------------------------------------
(* Array.prototype.sort((a, b) => key(a) - key(b)): a stable merge sort   *)
(* over the natural runs of the array; a NaN difference counts as 0.       *)
(* keys[i] is the key of s[i]; the sort works on the indices 1..Len(s).    *)

\* the comparator puts a after b
After(keys, a, b) ==
  LET c == TimeDiff(keys[a], keys[b]) IN ~c.nan /\ c.v > 0

\* merge two sorted index sequences, a's elements first among equals
RECURSIVE Merge(_, _, _)
Merge(a, b, keys) ==
  IF a = <<>> THEN b
  ELSE IF b = <<>> THEN a
  ELSE IF After(keys, a[1], b[1])
  THEN LET c == Cardinality({j \in 1..Len(b) : After(keys, a[1], b[j])})
       IN SubSeq(b, 1, c) \o Merge(a, SubSeq(b, c + 1, Len(b)), keys)
  ELSE LET c == Cardinality({i \in 1..Len(a) : ~After(keys, a[i], b[1])})
       IN SubSeq(a, 1, c) \o Merge(SubSeq(a, c + 1, Len(a)), b, keys)

\* merge the runs that start at index from into the sorted sequence acc
RECURSIVE MergeRuns(_, _, _, _)
MergeRuns(acc, from, keys, descents) ==
  IF from > Len(keys) THEN acc
  ELSE LET later == {i \in descents : i >= from}
           last == IF later = {} THEN Len(keys)
                   ELSE CHOOSE i \in later : \A j \in later : i <= j
       IN MergeRuns(Merge(acc, [i \in 1..(last - from + 1) |-> from + i - 1], keys),
                    last + 1, keys, descents)

Sort(s, keys) ==
  LET descents == {i \in 1..(Len(s) - 1) : After(keys, i, i + 1)}
      order == MergeRuns(<<>>, 1, keys, descents)
  IN Array([r \in 1..Len(s) |-> s[order[r]]])

----------------------------------------------------------------------------
(* Map<string, number>: entries <<key, value>> in insertion order *)

MapHas(map, key) == \E i \in 1..Len(map) : map[i][1] = key

MapGet(map, key) == map[CHOOSE i \in 1..Len(map) : map[i][1] = key][2]

MapSet(map, key, value) ==
  IF MapHas(map, key)
  THEN Array([i \in 1..Len(map) |-> IF map[i][1] = key THEN <<key, value>> ELSE map[i]])
  ELSE Append(map, <<key, value>>)

RECURSIVE MapOfEntries(_, _)
MapOfEntries(entries, map) ==
  IF entries = <<>> THEN map
  ELSE MapOfEntries(Tail(entries), MapSet(map, Head(entries)[1], Head(entries)[2]))

\* new Map(entries)
NewMap(entries) ==
  IF Cardinality({entries[i][1] : i \in 1..Len(entries)}) = Len(entries)
  THEN entries
  ELSE MapOfEntries(entries, <<>>)

----------------------------------------------------------------------------
(* Commit records, as the GitHub REST API returns them *)

NoAuthor == NULL

\* sha, commit.author.date, commit.author.name, author?.login, author?.avatar_url
Commit(sha, date, name, login, avatar) ==
  [sha |-> sha, date |-> date, name |-> name, login |-> login, avatar_url |-> avatar]

hasAuthor(commit) == commit.login # NoAuthor

\* a record whose commit.author.date is missing
Undated(sha, name, login, avatar) ==
  [sha |-> sha, name |-> name, login |-> login, avatar_url |-> avatar]

\* new Date(commit.commit.author.date) is a valid Date; of undefined it is an
\* Invalid Date, whose time is NaN
hasDate(commit) == "date" \in DOMAIN commit

----------------------------------------------------------------------------
(* chartData: the body of the useMemo callback *)

\* the switch with `default: startDate = startOfISOWeek(endDate)`
startDateOfDefaultWeek(list, range, end, zone) ==
  CASE range = "this_month" -> startOfMonth(end, zone)
    [] range = "all_time" -> IF Len(list) > 0 THEN list[Len(list)].date ELSE end
    [] OTHER -> startOfISOWeek(end, zone)

\* switch (timeRange)
startDateOf(list, range, end, zone) ==
  CASE range = "this_week" -> startOfISOWeek(end, zone)
    [] range = "this_month" -> startOfMonth(end, zone)
    [] range = "all_time" -> IF Len(list) > 0 THEN list[Len(list)].date ELSE end
    [] OTHER -> startOfMonth(end, zone)

\* the filter without its lower bound: commits.filter(commitDate <= endDate)
filteredCommitsUpTo(list, start, end) ==
  SelectSeq(list, LAMBDA commit : commit.date <= end)

\* commits.filter(commitDate >= startDate && commitDate <= endDate)
\* (a comparison with an Invalid Date is false)
filteredCommits(list, start, end) ==
  SelectSeq(list, LAMBDA commit :
              hasDate(commit) /\ commit.date >= start /\ commit.date <= end)

\* new Map(dateInterval.map(d => [format(d, 'yyyy-MM-dd'), 0]))
zeroDateMap(dateInterval, zone) ==
  NewMap(Array([i \in 1..Len(dateInterval) |-> <<formatISO(dateInterval[i], zone), 0>>]))

\* forEach(commit => if (map.has(day)) map.set(day, (map.get(day) || 0) + 1))
RECURSIVE countInto(_, _, _)
countInto(map, list, zone) ==
  IF list = <<>> THEN map
  ELSE LET commitDateString == formatISO(Head(list).date, zone)
       IN countInto(IF MapHas(map, commitDateString)
                    THEN MapSet(map, commitDateString, MapGet(map, commitDateString) + 1)
                    ELSE map,
                    Tail(list), zone)

\* Array.from(map.entries()).map(([date, commits]) => ({date: format(new
\* Date(date), 'MMM dd'), commits})).sort((a, b) => new Date(a.date).getTime()
\* - new Date(b.date).getTime())
seriesOf(map, zone, parser) ==
  LET rows == Array([i \in 1..Len(map) |->
                 [date |-> formatLabel(newDateISO(map[i][1]), zone), commits |-> map[i][2]]])
      keys == Array([i \in 1..Len(map) |-> newDateLabelTime(rows[i].date, zone, parser)])
  IN Sort(rows, keys)

\* contributorMap without the `if (author)` guard: every commit is counted,
\* those without an account under the key null
RECURSIVE contributorMapOfEvery(_, _)
contributorMapOfEvery(list, map) ==
  IF list = <<>> THEN map
  ELSE LET commit == Head(list)
           withEntry == IF MapHas(map, commit.login) THEN map
                        ELSE MapSet(map, commit.login,
                                    [name |-> commit.name, avatar_url |-> commit.avatar_url,
                                     totalCommits |-> 0])
           contributor == MapGet(withEntry, commit.login)
       IN contributorMapOfEvery(Tail(list),
            MapSet(withEntry, commit.login,
                   [contributor EXCEPT !.totalCommits = contributor.totalCommits + 1]))

\* contributorMap keyed by commit.commit.author.name instead of author.login
RECURSIVE contributorMapOfByName(_, _)
contributorMapOfByName(list, map) ==
  IF list = <<>> THEN map
  ELSE LET commit == Head(list)
           withEntry == IF MapHas(map, commit.name) THEN map
                        ELSE MapSet(map, commit.name,
                                    [name |-> commit.name, avatar_url |-> commit.avatar_url,
                                     totalCommits |-> 0])
           contributor == MapGet(withEntry, commit.name)
       IN contributorMapOfByName(Tail(list),
            IF hasAuthor(commit)
            THEN MapSet(withEntry, commit.name,
                        [contributor EXCEPT !.totalCommits = contributor.totalCommits + 1])
            ELSE map)

\* contributorMap that overwrites name and avatar_url on every commit of the
\* login, so that the commit processed last decides them
RECURSIVE contributorMapOfLatest(_, _)
contributorMapOfLatest(list, map) ==
  IF list = <<>> THEN map
  ELSE LET commit == Head(list)
           totalCommits == IF MapHas(map, commit.login)
                           THEN MapGet(map, commit.login).totalCommits ELSE 0
       IN contributorMapOfLatest(Tail(list),
            IF hasAuthor(commit)
            THEN MapSet(map, commit.login,
                        [name |-> commit.name, avatar_url |-> commit.avatar_url,
                         totalCommits |-> totalCommits + 1])
            ELSE map)

\* commits.forEach(commit => { if (author) { ...; contributor.totalCommits += 1 } })
\* The map's entries are <<login, {name, avatar_url, totalCommits}>>.
RECURSIVE contributorMapOf(_, _)
contributorMapOf(list, map) ==
  IF list = <<>> THEN map
  ELSE LET commit == Head(list)
           withEntry == IF MapHas(map, commit.login) THEN map
                        ELSE MapSet(map, commit.login,
                                    [name |-> commit.name, avatar_url |-> commit.avatar_url,
                                     totalCommits |-> 0])
           contributor == MapGet(withEntry, commit.login)
       IN contributorMapOf(Tail(list),
            IF hasAuthor(commit)
            THEN MapSet(withEntry, commit.login,
                        [contributor EXCEPT !.totalCommits = contributor.totalCommits + 1])
            ELSE map)

\* contributors without the final .sort(...)
contributorsOfUnsorted(map, filtered, dateInterval, zone, parser) ==
  Array([i \in 1..Len(map) |->
    LET login == map[i][1]
        data == map[i][2]
        own == SelectSeq(filtered, LAMBDA commit : hasAuthor(commit) /\ commit.login = login)
    IN [login |-> login, name |-> data.name, avatar_url |-> data.avatar_url,
        totalCommits |-> data.totalCommits,
        dailyCommits |-> seriesOf(countInto(zeroDateMap(dateInterval, zone), own, zone),
                                  zone, parser)]])

\* contributors without the `commit.author?.login === login` test
contributorsOfEveryone(map, filtered, dateInterval, zone, parser) ==
  LET rows == Array([i \in 1..Len(map) |->
        LET login == map[i][1]
            data == map[i][2]
        IN [login |-> login, name |-> data.name, avatar_url |-> data.avatar_url,
            totalCommits |-> data.totalCommits,
            dailyCommits |-> seriesOf(countInto(zeroDateMap(dateInterval, zone), filtered, zone),
                                      zone, parser)]])
      keys == Array([i \in 1..Len(map) |-> Num(0 - rows[i].totalCommits)])
  IN Sort(rows, keys)

\* Array.from(contributorMap.entries()).map(...).sort((a, b) => b.totalCommits - a.totalCommits)
contributorsOf(map, filtered, dateInterval, zone, parser) ==
  LET rows == Array([i \in 1..Len(map) |->
        LET login == map[i][1]
            data == map[i][2]
            own == SelectSeq(filtered, LAMBDA commit : hasAuthor(commit) /\ commit.login = login)
        IN [login |-> login, name |-> data.name, avatar_url |-> data.avatar_url,
            totalCommits |-> data.totalCommits,
            dailyCommits |-> seriesOf(countInto(zeroDateMap(dateInterval, zone), own, zone),
                                      zone, parser)]])
      keys == Array([i \in 1..Len(map) |-> Num(0 - rows[i].totalCommits)])
  IN Sort(rows, keys)

\* chartData with contributorMap built from filteredCommits instead of commits
chartDataOfWindowTotals(list, range, end, zone, parser) ==
  IF Len(list) = 0 THEN NullObject
  ELSE LET start == startDateOf(list, range, end, zone)
           filtered == filteredCommits(list, start, end)
           dateInterval == eachDayOfInterval(start, end, zone)
       IN [allCommits |-> seriesOf(countInto(zeroDateMap(dateInterval, zone), filtered, zone),
                                   zone, parser),
           contributors |-> contributorsOf(contributorMapOf(filtered, <<>>), filtered,
                                           dateInterval, zone, parser)]

\* chartData with the global series counting only commits that have an account
chartDataOfAuthored(list, range, end, zone, parser) ==
  IF Len(list) = 0 THEN NullObject
  ELSE LET start == startDateOf(list, range, end, zone)
           filtered == filteredCommits(list, start, end)
           dateInterval == eachDayOfInterval(start, end, zone)
       IN [allCommits |-> seriesOf(countInto(zeroDateMap(dateInterval, zone),
                                             SelectSeq(filtered, hasAuthor), zone),
                                   zone, parser),
           contributors |-> contributorsOf(contributorMapOf(list, <<>>), filtered,
                                           dateInterval, zone, parser)]

\* chartData without the guard on the empty list: no commits give the single
\* zero bucket of end's day and no contributors
chartDataOfEmptyBucket(list, range, end, zone, parser) ==
  IF Len(list) = 0
  THEN [allCommits |-> seriesOf(zeroDateMap(eachDayOfInterval(end, end, zone), zone),
                                zone, parser),
        contributors |-> <<>>]
  ELSE LET start == startDateOf(list, range, end, zone)
           filtered == filteredCommits(list, start, end)
           dateInterval == eachDayOfInterval(start, end, zone)
       IN [allCommits |-> seriesOf(countInto(zeroDateMap(dateInterval, zone), filtered, zone),
                                   zone, parser),
           contributors |-> contributorsOf(contributorMapOf(list, <<>>), filtered,
                                           dateInterval, zone, parser)]

\* the memoized value for the inputs (commits, timeRange) when new Date() is end
\* When "all time" takes its start from a record without a date, startDate is
\* an Invalid Date: no commit passes the filter and eachDayOfInterval's loop
\* `while (+currentDate <= endTime)` yields no day.
chartDataOf(list, range, end, zone, parser) ==
  IF Len(list) = 0 THEN NullObject
  ELSE IF range = "all_time" /\ ~hasDate(list[Len(list)])
  THEN [allCommits |-> <<>>,
        contributors |-> contributorsOf(contributorMapOf(list, <<>>), <<>>, <<>>, zone, parser)]
  ELSE LET start == startDateOf(list, range, end, zone)
           filtered == filteredCommits(list, start, end)
           dateInterval == eachDayOfInterval(start, end, zone)
       IN [allCommits |-> seriesOf(countInto(zeroDateMap(dateInterval, zone), filtered, zone),
                                   zone, parser),
           contributors |-> contributorsOf(contributorMapOf(list, <<>>), filtered,
                                           dateInterval, zone, parser)]

----------------------------------------------------------------------------
(* Inputs: the commits a repository can hold *)

\* the session starts on Wednesday 2025-01-01T00:00Z
Now0 == At(2025, 1, 1, 0)

\* a commit made more than a year before the session
OldCommit == Commit("s1", At(2023, 12, 30, 1), "Ann", "a", "a.png")

Pool ==
  { Commit("s2", At(2024, 12, 29, 1), "Ann L.", "a", "a.png"),   \* Sunday
    Commit("s3", At(2024, 12, 30, 0), "Bob", "b", "b.png"),      \* Monday
    Commit("s4", At(2024, 12, 30, 1), "Xu", NoAuthor, NULL),     \* Monday, no account
    Commit("s5", At(2024, 12, 31, 1), "Bob", "b", "b.png"),      \* Tuesday
    Commit("s6", At(2025, 1, 3, 0), "Ann", "a", "a.png") }       \* author clock ahead

\* the lists of at most n distinct commits
ListsUpTo(n) ==
  UNION { { l \in [1..k -> Pool] : \A i, j \in 1..k : i # j => l[i].sha # l[j].sha } : k \in 0..n }

CommitLists == ListsUpTo(MaxCommits)

\* the lists whose oldest (last) commit is the year-old one
YearLists == { Append(l, OldCommit) : l \in ListsUpTo(1) }

\* a record that lacks its author date, and the lists that hold it
UndatedCommit == Undated("s7", "Bob", "b", "b.png")

MalformedLists ==
  { [i \in 1..(Len(l) + 1) |-> IF i < k THEN l[i] ELSE IF i = k THEN UndatedCommit ELSE l[i - 1]] :
      <<l, k>> \in { <<l, k>> \in ListsUpTo(MaxCommits - 1) \X (1..MaxCommits) : k <= Len(l) + 1 } }

\* the repository URLs a user submits; the last has no repository path part
Urls == {"https://github.com/o/r1", "https://github.com/o/r2.git", "https://github.com/o"}

\* new URL(repoUrl).pathname.split('/').filter(Boolean)
pathParts(url) ==
  CASE url = "https://github.com/o/r1" -> <<"o", "r1">>
    [] url = "https://github.com/o/r2.git" -> <<"o", "r2.git">>
    [] OTHER -> <<"o">>

\* pathParts[1].replace(/\.git$/, '')
stripGit(name) == IF name = "r2.git" THEN "r2" ELSE name

\* what the GitHub API can answer for a repository: its newest commits first
Responses(owner, repo) ==
  IF repo = "r1"
  THEN { <<>>, <<Commit("s5", At(2024, 12, 31, 1), "Bob", "b", "b.png"),
                 Commit("s3", At(2024, 12, 30, 0), "Bob", "b", "b.png")>> }
  ELSE { <<Commit("s4", At(2024, 12, 30, 1), "Xu", NoAuthor, NULL),
           Commit("s2", At(2024, 12, 29, 1), "Ann L.", "a", "a.png")>> }

\* the error texts of fetchCommits
NotFoundError == "Repository not found. Please check the URL."
RateLimitError ==
  "GitHub API rate limit exceeded. Please add a GITHUB_TOKEN to your .env file or try again later."
NetworkError == "An unexpected network error occurred."

\* a rejected promise / a thrown error with its message
Throws(message) == [throws |-> TRUE, message |-> message]

\* a Response: its status, and what response.json() finds in its body
HttpResponse(status, body) == [status |-> status, body |-> body]
NotJson == [json |-> FALSE]
JsonObject == [json |-> TRUE]
JsonMessage(message) == [json |-> TRUE, message |-> message]
JsonArray(list) == [json |-> TRUE, array |-> list]

\* what `await fetch(.../repos/owner/repo/commits)` can come back with
HttpAnswers(owner, repo) ==
  { HttpResponse(200, JsonArray(list)) : list \in Responses(owner, repo) }
  \cup { Throws("fetch failed"),
         HttpResponse(200, NotJson),
         HttpResponse(404, JsonMessage("Not Found")),
         HttpResponse(403, JsonMessage("API rate limit exceeded for 203.0.113.5.")),
         HttpResponse(403, JsonMessage("Repository access blocked")),
         HttpResponse(403, JsonObject),
         HttpResponse(403, NotJson),
         HttpResponse(409, JsonMessage("Git Repository is empty.")),
         HttpResponse(500, JsonObject),
         HttpResponse(500, NotJson) }

\* those of them a session of the component meets
HttpOutcomes(owner, repo) ==
  { outcome \in HttpAnswers(owner, repo) :
      \/ "throws" \in DOMAIN outcome
      \/ "array" \in DOMAIN outcome.body
      \/ "message" \in DOMAIN outcome.body /\ outcome.status \in {404, 403}
                                           /\ outcome.body.message # "Repository access blocked" }

\* response.ok
ok(status) == status \in 200..299

\* message.includes('rate limit exceeded'), on the messages above
includesRateLimitExceeded(message) == message = "API rate limit exceeded for 203.0.113.5."

\* `Failed to fetch commits (status: ${response.status}).`
failedToFetch(status) ==
  CASE status = 500 -> "Failed to fetch commits (status: 500)."
    [] status = 409 -> "Failed to fetch commits (status: 409)."
    [] status = 403 -> "Failed to fetch commits (status: 403)."

\* the try block of fetchCommits: the value it returns, or what it throws
tryFetchCommits(outcome) ==
  IF "throws" \in DOMAIN outcome THEN outcome
  ELSE IF ~ok(outcome.status)
  THEN IF outcome.status = 404 THEN [error |-> NotFoundError]
       ELSE IF ~outcome.body.json THEN Throws("Unexpected token < in JSON")
       ELSE IF outcome.status = 403
       THEN IF "message" \notin DOMAIN outcome.body
            THEN Throws("Cannot read properties of undefined (reading 'includes')")
            ELSE [error |-> IF includesRateLimitExceeded(outcome.body.message)
                            THEN RateLimitError ELSE outcome.body.message]
       ELSE [error |-> IF "message" \in DOMAIN outcome.body /\ outcome.body.message # ""
                       THEN outcome.body.message ELSE failedToFetch(outcome.status)]
  ELSE IF ~outcome.body.json THEN Throws("Unexpected token < in JSON")
  ELSE [commits |-> outcome.body.array]

\* fetchCommits without its try / catch
fetchCommitsUncaught(owner, repo, outcome) == tryFetchCommits(outcome)

\* fetchCommits(owner, repo) when GitHub answers with outcome
fetchCommits(owner, repo, outcome) ==
  LET returned == tryFetchCommits(outcome)
  IN IF "throws" \in DOMAIN returned THEN [error |-> NetworkError] ELSE returned

----------------------------------------------------------------------------
(* The server action rewriteCommitWithAI *)

NoDiffError ==
  "Could not retrieve diff for this commit. It might be an empty commit with no file changes."
SafetyError == "The AI model refused to generate a response due to safety concerns."
UnexpectedError == "An unexpected error occurred during AI rewrite."

\* a thrown value that is not an Error object: it has no `message`
ThrowsValue == [throws |-> TRUE]

\* the JSON body of GET /repos/{owner}/{repo}/commits/{sha}: commit.message,
\* the `patch` of every entry of `files` (NULL where the entry has none), and
\* parents.length
CommitDetails(message, patches, parents) ==
  [json |-> TRUE, commit |-> [message |-> message], files |-> patches, parents |-> parents]

\* the same body without a `files` array
CommitDetailsNoFiles(message, parents) ==
  [json |-> TRUE, commit |-> [message |-> message], parents |-> parents]

\* what `await fetch(.../repos/owner/repo/commits/sha)` can come back with
CommitAnswers(sha) ==
  LET message == <<"message of", sha>>
  IN { HttpResponse(200, CommitDetails(message, <<"@@ -1 +1 @@">>, 1)),
       HttpResponse(200, CommitDetails(message, <<NULL, "@@ -1 +1 @@">>, 2)),
       HttpResponse(200, CommitDetails(message, <<NULL, NULL>>, 1)),
       HttpResponse(200, CommitDetails(message, <<NULL>>, 1)),
       HttpResponse(200, CommitDetails(message, <<"">>, 2)),
       HttpResponse(200, CommitDetails(message, <<>>, 0)),
       HttpResponse(200, CommitDetails(message, <<>>, 1)),
       HttpResponse(200, CommitDetails(message, <<>>, 2)),
       HttpResponse(200, CommitDetailsNoFiles(message, 1)),
       HttpResponse(200, CommitDetailsNoFiles(message, 2)),
       HttpResponse(200, JsonObject),
       HttpResponse(200, NotJson),
       HttpResponse(404, JsonMessage("Not Found")),
       HttpResponse(422, JsonMessage("No commit found for SHA")),
       HttpResponse(500, JsonObject),
       HttpResponse(500, NotJson),
       Throws("fetch failed"),
       ThrowsValue }

\* what `await prompt(input)` of the flow can come back with: an output, no
\* output, or a thrown error or value
AiOutcomes(sha) ==
  { [output |-> [rewrittenMessage |-> <<"rewrite of", sha>>]],
    [output |-> NullObject],
    Throws("Generation blocked: SAFETY"),
    Throws("503 Service Unavailable"),
    ThrowsValue }

\* message.includes('SAFETY'), on the messages above
includesSafety(message) == message = "Generation blocked: SAFETY"

\* `Failed to fetch commit details (status: ${response.status}).`
failedToFetchDetails(status) ==
  CASE status = 500 -> "Failed to fetch commit details (status: 500)."
    [] status = 422 -> "Failed to fetch commit details (status: 422)."
    [] status = 404 -> "Failed to fetch commit details (status: 404)."

\* file.patch || ''
patchOrEmpty(patch) == IF patch = NULL THEN "" ELSE patch

\* strings.join('\n'): the pieces of the joined string, in order
RECURSIVE join(_)
join(strings) ==
  IF Len(strings) <= 1 THEN strings
  ELSE <<Head(strings), "\n">> \o join(Tail(strings))

\* !string, of a string given by its pieces
isEmptyString(pieces) == \A i \in 1..Len(pieces) : pieces[i] = ""

\* commitDetails.files?.map(file => file.patch || '').join('\n') || ''
diffOf(commitDetails) ==
  IF "files" \in DOMAIN commitDetails
  THEN join(Array([i \in 1..Len(commitDetails.files) |-> patchOrEmpty(commitDetails.files[i])]))
  ELSE <<>>

\* the template literal of the merge-commit notice
mergeNotice(originalMessage) ==
  <<"This is a merge commit. No file changes to analyze.\n\nOriginal message:\n", originalMessage>>

\* rewriteCommitMessage(input): the flow returns output!, or throws
rewriteCommitMessage(ai) ==
  IF "throws" \in DOMAIN ai THEN ai ELSE ai.output

\* the try block if it asked the AI as soon as the commit details arrived,
\* before looking at the diff
tryRewriteCommitWithAIEagerly(answer, ai) ==
  IF "throws" \in DOMAIN answer THEN [returned |-> answer, aiCalled |-> FALSE]
  ELSE IF ~answer.body.json
  THEN [returned |-> Throws("Unexpected token < in JSON"), aiCalled |-> FALSE]
  ELSE IF ~ok(answer.status)
  THEN [returned |-> [error |-> IF "message" \in DOMAIN answer.body /\ answer.body.message # ""
                                THEN answer.body.message
                                ELSE failedToFetchDetails(answer.status)],
        aiCalled |-> FALSE]
  ELSE IF "commit" \notin DOMAIN answer.body
  THEN [returned |-> Throws("Cannot read properties of undefined (reading 'message')"),
        aiCalled |-> FALSE]
  ELSE LET commitDetails == answer.body
           originalMessage == commitDetails.commit.message
           diff == diffOf(commitDetails)
           result_ == rewriteCommitMessage(ai)
       IN IF "throws" \in DOMAIN result_ THEN [returned |-> result_, aiCalled |-> TRUE]
          ELSE IF isEmptyString(diff) /\ commitDetails.parents > 1
          THEN [returned |-> [rewrittenMessage |-> mergeNotice(originalMessage),
                              originalMessage |-> originalMessage],
                aiCalled |-> TRUE]
          ELSE IF isEmptyString(diff)
          THEN [returned |-> [error |-> NoDiffError], aiCalled |-> TRUE]
          ELSE IF result_ = NullObject
          THEN [returned |-> Throws("Cannot read properties of null (reading 'rewrittenMessage')"),
                aiCalled |-> TRUE]
          ELSE [returned |-> [rewrittenMessage |-> result_.rewrittenMessage,
                              originalMessage |-> originalMessage],
                aiCalled |-> TRUE]

\* the try block of rewriteCommitWithAI: the value it returns or what it
\* throws, and whether it got as far as calling rewriteCommitMessage
tryRewriteCommitWithAI(answer, ai) ==
  IF "throws" \in DOMAIN answer THEN [returned |-> answer, aiCalled |-> FALSE]
  ELSE IF ~answer.body.json
  THEN [returned |-> Throws("Unexpected token < in JSON"), aiCalled |-> FALSE]
  ELSE IF ~ok(answer.status)
  THEN [returned |-> [error |-> IF "message" \in DOMAIN answer.body /\ answer.body.message # ""
                                THEN answer.body.message
                                ELSE failedToFetchDetails(answer.status)],
        aiCalled |-> FALSE]
  ELSE IF "commit" \notin DOMAIN answer.body
  THEN [returned |-> Throws("Cannot read properties of undefined (reading 'message')"),
        aiCalled |-> FALSE]
  ELSE LET commitDetails == answer.body
           originalMessage == commitDetails.commit.message
           diff == diffOf(commitDetails)
       IN IF isEmptyString(diff) /\ commitDetails.parents > 1
          THEN [returned |-> [rewrittenMessage |-> mergeNotice(originalMessage),
                              originalMessage |-> originalMessage],
                aiCalled |-> FALSE]
          ELSE IF isEmptyString(diff)
          THEN [returned |-> [error |-> NoDiffError], aiCalled |-> FALSE]
          ELSE LET result_ == rewriteCommitMessage(ai)
               IN IF "throws" \in DOMAIN result_ THEN [returned |-> result_, aiCalled |-> TRUE]
                  ELSE IF result_ = NullObject
                  THEN [returned |-> Throws("Cannot read properties of null (reading 'rewrittenMessage')"),
                        aiCalled |-> TRUE]
                  ELSE [returned |-> [rewrittenMessage |-> result_.rewrittenMessage,
                                      originalMessage |-> originalMessage],
                        aiCalled |-> TRUE]

\* rewriteCommitWithAI(owner, repo, sha) when GitHub answers with answer and
\* the model with ai: what the promise settles to (a thrown value is a
\* rejection), and whether the AI was called
rewriteCommitWithAI(owner, repo, sha, answer, ai) ==
  LET tried == tryRewriteCommitWithAI(answer, ai)
      error == tried.returned
  IN [aiCalled |-> tried.aiCalled,
      settled |-> IF "throws" \notin DOMAIN error THEN error
                  ELSE IF "message" \notin DOMAIN error
                  THEN Throws("Cannot read properties of undefined (reading 'includes')")
                  ELSE IF includesSafety(error.message) THEN [error |-> SafetyError]
                  ELSE [error |-> UnexpectedError]]

\* what rewriteCommitWithAI(owner, repo, sha) can settle to
RewriteOutcomes(sha) ==
  { [originalMessage |-> <<"message of", sha>>, rewrittenMessage |-> <<"rewrite of", sha>>],
    [error |-> "An unexpected error occurred during AI rewrite."],
    Throws("Cannot read properties of undefined (reading 'includes')") }

----------------------------------------------------------------------------
(* The component *)

\* the memo if its dependency list were [commits]: a change of timeRange
\* alone leaves the value computed for the previous window
MemoOnCommitsOnly(list, range) ==
  IF list = commits
  THEN UNCHANGED <<chartData, endDate>>
  ELSE /\ chartData' = chartDataOf(list, range, now, tz, dateParse)
       /\ endDate' = IF Len(list) = 0 THEN NULL ELSE now

\* the value useMemo holds after a render in which commits or timeRange changed
Memo(list, range) ==
  /\ chartData' = chartDataOf(list, range, now, tz, dateParse)
  /\ endDate' = IF Len(list) = 0 THEN NULL ELSE now

\* the useState initial values of the rewrite dialog
RewriteInit ==
  /\ selectedCommit = NullObject
  /\ isRewriting = FALSE
  /\ rewriteData = NullObject
  /\ copied = FALSE
  /\ rewrites = <<>>
  /\ timers = 0

\* a session of the component runs in UTC; the aggregator is applied in
\* every zone in AggSpec
SessionZones == {0}

Init ==
  /\ tz \in SessionZones
  /\ dateParse \in DateParsers
  /\ now = Now0
  /\ commits = <<>>
  /\ repoInfo = NullObject
  /\ timeRange = "all_time"
  /\ chartData = NullObject
  /\ endDate = NULL
  /\ inflight = <<>>
  /\ toast = NULL
  /\ location = NULL
  /\ response = NullObject
  /\ result = NullObject
  /\ RewriteInit

\* <AlertDialog open={!!selectedCommit}>: the dialog is modal, the page
\* behind it takes no clicks while it is open
dialogOpen == selectedCommit # NullObject

\* time passes
Tick ==
  /\ now < Now0 + MaxTick
  /\ now' = now + 1
  /\ UNCHANGED <<location, tz, dateParse, commits, repoInfo, timeRange, chartData, endDate, inflight, toast,
                 response, result, rewriteVars>>

\* a window change whose memo run reverses the held array in place
SetTimeRangeReversing(value) ==
  /\ ~dialogOpen
  /\ value # timeRange
  /\ timeRange' = value
  /\ commits' = [i \in 1..Len(commits) |-> commits[Len(commits) + 1 - i]]
  /\ Memo(commits', value)
  /\ UNCHANGED <<location, tz, dateParse, now, repoInfo, inflight, toast, response, result,
                 rewriteVars>>

\* <Tabs value={timeRange} onValueChange={setTimeRange}>
SetTimeRange(value) ==
  /\ ~dialogOpen
  /\ value # timeRange
  /\ timeRange' = value
  /\ Memo(commits, value)
  /\ UNCHANGED <<location, tz, dateParse, now, commits, repoInfo, inflight, toast, response, result,
                 rewriteVars>>

\* handleFetchCommits(repoUrl) up to the await of fetchCommits.  (The submit
\* button is disabled while isFetchingCommits; the pending flag of a
\* transition does not outlast the synchronous part of its callback unless
\* React awaits async transitions, so a fetch in flight does not bar a
\* submission.)
Submit(repoUrl) ==
  /\ ~dialogOpen
  /\ Len(inflight) < MaxInFlight
  /\ commits' = <<>>
  /\ repoInfo' = NullObject
  /\ Memo(<<>>, timeRange)
  /\ LET parts == pathParts(repoUrl)
     IN IF Len(parts) < 2
        THEN /\ toast' = "Invalid GitHub repository URL path."
             /\ UNCHANGED inflight
        ELSE /\ inflight' = Append(inflight, [owner |-> parts[1], repo |-> stripGit(parts[2]),
                                              url |-> repoUrl])
             /\ UNCHANGED toast
  /\ location' = repoUrl
  /\ UNCHANGED <<tz, dateParse, now, timeRange, response, result, rewriteVars>>

\* the sequence without its i-th element
Without(q, i) == [k \in 1..(Len(q) - 1) |-> IF k < i THEN q[k] ELSE q[k + 1]]

\* the success path if it appended the fetched commits to the held ones
FetchSucceedsMerging ==
  \E i \in 1..Len(inflight) :
    \E outcome \in HttpOutcomes(inflight[i].owner, inflight[i].repo) :
      LET returned == fetchCommits(inflight[i].owner, inflight[i].repo, outcome)
      IN /\ "commits" \in DOMAIN returned
         /\ commits' = commits \o returned.commits
         /\ repoInfo' = inflight[i]
         /\ Memo(commits', timeRange)
         /\ inflight' = Without(inflight, i)
         /\ UNCHANGED <<location, tz, dateParse, now, timeRange, toast, response, result, rewriteVars>>

\* the success path if it took repoInfo from the submission made last
\* instead of its own call's repoData
FetchSucceedsLatestRepo ==
  \E i \in 1..Len(inflight) :
    \E outcome \in HttpOutcomes(inflight[i].owner, inflight[i].repo) :
      LET returned == fetchCommits(inflight[i].owner, inflight[i].repo, outcome)
      IN /\ "commits" \in DOMAIN returned
         /\ commits' = returned.commits
         /\ repoInfo' = inflight[Len(inflight)]
         /\ Memo(returned.commits, timeRange)
         /\ inflight' = Without(inflight, i)
         /\ UNCHANGED <<location, tz, dateParse, now, timeRange, toast, response, result, rewriteVars>>

\* a fetch in flight resolves to {commits}: handleFetchCommits resumes after
\* its await and stores the list and the repository
FetchSucceeds ==
  \E i \in 1..Len(inflight) :
    \E outcome \in HttpOutcomes(inflight[i].owner, inflight[i].repo) :
      LET returned == fetchCommits(inflight[i].owner, inflight[i].repo, outcome)
      IN /\ "commits" \in DOMAIN returned
         /\ commits' = returned.commits
         /\ repoInfo' = inflight[i]
         /\ Memo(returned.commits, timeRange)
         /\ inflight' = Without(inflight, i)
         /\ UNCHANGED <<location, tz, dateParse, now, timeRange, toast, response, result, rewriteVars>>

\* a fetch in flight resolves to {error}, or rejects: the handler throws,
\* and its catch toasts the message
FetchFails ==
  \E i \in 1..Len(inflight) :
    \E outcome \in HttpOutcomes(inflight[i].owner, inflight[i].repo) :
      LET returned == fetchCommits(inflight[i].owner, inflight[i].repo, outcome)
      IN /\ "commits" \notin DOMAIN returned
         /\ toast' = IF "error" \in DOMAIN returned THEN returned.error ELSE returned.message
         /\ inflight' = Without(inflight, i)
         /\ UNCHANGED <<location, tz, dateParse, now, commits, repoInfo, timeRange, chartData, endDate,
                        response, result, rewriteVars>>

\* handleRewriteClick(commit), up to the call of rewriteCommitWithAI.  The
\* button of a commit is rendered while commits are held; it is disabled
\* only while isRewriting with that commit selected, which is a state with
\* the dialog open.
RewriteClick(commit) ==
  /\ ~dialogOpen
  /\ repoInfo # NullObject
  /\ Len(rewrites) < MaxRewrites
  /\ selectedCommit' = commit
  /\ isRewriting' = TRUE
  /\ rewriteData' = NullObject
  /\ rewrites' = Append(rewrites, [owner |-> repoInfo.owner, repo |-> repoInfo.repo,
                                   sha |-> commit.sha])
  /\ UNCHANGED <<location, tz, dateParse, now, commits, repoInfo, timeRange, chartData, endDate, inflight,
                 toast, response, result, copied, timers>>

\* a rewrite request resolves with a message: .then stores it, .finally
\* clears the flag
RewriteSucceeds ==
  \E i \in 1..Len(rewrites) :
    \E outcome \in RewriteOutcomes(rewrites[i].sha) :
      /\ "rewrittenMessage" \in DOMAIN outcome
      /\ rewriteData' = [original |-> outcome.originalMessage,
                         rewritten |-> outcome.rewrittenMessage]
      /\ isRewriting' = FALSE
      /\ rewrites' = Without(rewrites, i)
      /\ UNCHANGED <<location, tz, dateParse, now, commits, repoInfo, timeRange, chartData, endDate,
                     inflight, toast, response, result, selectedCommit, copied, timers>>

\* the failure handler if it also dropped the held commits
RewriteFailsClearing ==
  \E i \in 1..Len(rewrites) :
    \E outcome \in RewriteOutcomes(rewrites[i].sha) :
      /\ "rewrittenMessage" \notin DOMAIN outcome
      /\ toast' = IF "error" \in DOMAIN outcome THEN outcome.error ELSE outcome.message
      /\ selectedCommit' = NullObject
      /\ isRewriting' = FALSE
      /\ rewrites' = Without(rewrites, i)
      /\ commits' = <<>>
      /\ Memo(<<>>, timeRange)
      /\ UNCHANGED <<location, tz, dateParse, now, repoInfo, timeRange,
                     inflight, response, result, rewriteData, copied, timers>>

\* a rewrite request resolves with an error, or rejects: .catch toasts and
\* closes the dialog, .finally clears the flag
RewriteFails ==
  \E i \in 1..Len(rewrites) :
    \E outcome \in RewriteOutcomes(rewrites[i].sha) :
      /\ "rewrittenMessage" \notin DOMAIN outcome
      /\ toast' = IF "error" \in DOMAIN outcome THEN outcome.error ELSE outcome.message
      /\ selectedCommit' = NullObject
      /\ isRewriting' = FALSE
      /\ rewrites' = Without(rewrites, i)
      /\ UNCHANGED <<location, tz, dateParse, now, commits, repoInfo, timeRange, chartData, endDate,
                     inflight, response, result, rewriteData, copied, timers>>

\* onOpenChange(false): the dialog is dismissed with the Escape key
DialogDismiss ==
  /\ dialogOpen
  /\ selectedCommit' = NullObject
  /\ UNCHANGED <<location, tz, dateParse, now, commits, repoInfo, timeRange, chartData, endDate, inflight,
                 toast, response, result, isRewriting, rewriteData, copied, rewrites, timers>>

\* the Close button: its onClick, and onOpenChange(false)
DialogClose ==
  /\ dialogOpen
  /\ selectedCommit' = NullObject
  /\ rewriteData' = NullObject
  /\ UNCHANGED <<location, tz, dateParse, now, commits, repoInfo, timeRange, chartData, endDate, inflight,
                 toast, response, result, isRewriting, copied, rewrites, timers>>

\* handleCopy, from the Copy button the dialog shows with a result
Copy ==
  /\ dialogOpen
  /\ ~isRewriting
  /\ rewriteData # NullObject
  /\ timers < MaxTimers
  /\ copied' = TRUE
  /\ timers' = timers + 1
  /\ UNCHANGED <<location, tz, dateParse, now, commits, repoInfo, timeRange, chartData, endDate, inflight,
                 toast, response, result, selectedCommit, isRewriting, rewriteData, rewrites>>

\* setTimeout(() => setCopied(false), 2000) fires
CopyTimeout ==
  /\ timers > 0
  /\ copied' = FALSE
  /\ timers' = timers - 1
  /\ UNCHANGED <<location, tz, dateParse, now, commits, repoInfo, timeRange, chartData, endDate, inflight,
                 toast, response, result, selectedCommit, isRewriting, rewriteData, rewrites>>

\* a step of the AI rewrite
RewriteStep ==
  \/ \E i \in 1..Len(commits) : RewriteClick(commits[i])
  \/ RewriteSucceeds
  \/ RewriteFails
  \/ DialogDismiss
  \/ DialogClose
  \/ Copy
  \/ CopyTimeout

Next ==
  \/ Tick
  \/ \E value \in TimeRanges : SetTimeRange(value)
  \/ \E repoUrl \in Urls : Submit(repoUrl)
  \/ FetchSucceeds
  \/ FetchFails
  \/ RewriteStep

Spec == Init /\ [][Next]_vars


----------------------------------------------------------------------------
(* The aggregator on its own: chartData as a function of (commits,         *)
(* timeRange, now), applied to every commit list of the bounded input set  *)

AggInitFrom(lists) ==
  /\ tz \in TimeZones
  /\ dateParse \in DateParsers
  /\ now = Now0
  /\ commits \in lists
  /\ repoInfo = IF commits = <<>> THEN NullObject
                ELSE [owner |-> "o", repo |-> "r1", url |-> "https://github.com/o/r1"]
  /\ timeRange = "all_time"
  /\ chartData = chartDataOf(commits, timeRange, now, tz, dateParse)
  /\ endDate = IF commits = <<>> THEN NULL ELSE now
  /\ inflight = <<>>
  /\ toast = NULL
  /\ location = NULL
  /\ response = NullObject
  /\ result = NullObject
  /\ RewriteInit

AggInit == AggInitFrom(CommitLists)

AggNext ==
  \/ Tick
  \/ \E value \in TimeRanges : SetTimeRange(value)

AggSpec == AggInit /\ [][AggNext]_vars

\* the same, on windows that reach back more than a year
YearInit == AggInitFrom(YearLists)

YearSpec == YearInit /\ [][AggNext]_vars

----------------------------------------------------------------------------
(* The server action fetchCommits on its own: applied to every answer of   *)
(* GitHub in the bounded input set                                         *)

ServerCall ==
  \E repoUrl \in Urls :
    LET parts == pathParts(repoUrl)
    IN /\ Len(parts) >= 2
       /\ \E outcome \in HttpAnswers(parts[1], stripGit(parts[2])) :
            /\ response' = outcome
            /\ result' = fetchCommits(parts[1], stripGit(parts[2]), outcome)
       /\ UNCHANGED <<location, tz, dateParse, now, commits, repoInfo, timeRange, chartData, endDate,
                      inflight, toast, rewriteVars>>

FetchCommitsNext ==
  \/ Tick
  \/ ServerCall

\* no commits are held; the calls are made in every environment
FetchCommitsInit == AggInitFrom({<<>>})

FetchCommitsSpec == FetchCommitsInit /\ [][FetchCommitsNext]_vars

\* the server action rewriteCommitWithAI on its own: applied to every answer
\* of GitHub and every outcome of the AI call in the bounded input sets
RewriteCall ==
  \E commit \in Pool, owner \in {"o"}, repo \in {"r1", "r2"} :
    \E answer \in CommitAnswers(commit.sha), ai \in AiOutcomes(commit.sha) :
      /\ response' = [sha |-> commit.sha, answer |-> answer, ai |-> ai]
      /\ result' = rewriteCommitWithAI(owner, repo, commit.sha, answer, ai)
      /\ UNCHANGED <<location, tz, dateParse, now, commits, repoInfo, timeRange, chartData, endDate,
                     inflight, toast, rewriteVars>>

RewriteCallNext ==
  \/ Tick
  \/ RewriteCall

RewriteCallInit == FetchCommitsInit

RewriteCallSpec == RewriteCallInit /\ [][RewriteCallNext]_vars

\* the aggregator applied to lists that hold a record without author date
MalformedInit == AggInitFrom(MalformedLists)

MalformedSpec == MalformedInit /\ [][AggNext]_vars

\* timeRange is a plain string state (useState('all_time')) and the switch
\* has a default branch: the values the aggregator can be handed
Selections == TimeRanges \cup {"last_year"}

\* the aggregator applied to every selection, the recognised ones and another
SelInit ==
  /\ tz \in TimeZones
  /\ dateParse \in DateParsers
  /\ now = Now0
  /\ commits \in CommitLists
  /\ repoInfo = IF commits = <<>> THEN NullObject
                ELSE [owner |-> "o", repo |-> "r1", url |-> "https://github.com/o/r1"]
  /\ timeRange \in Selections
  /\ chartData = chartDataOf(commits, timeRange, now, tz, dateParse)
  /\ endDate = IF commits = <<>> THEN NULL ELSE now
  /\ inflight = <<>>
  /\ toast = NULL
  /\ location = NULL
  /\ response = NullObject
  /\ result = NullObject
  /\ RewriteInit

SelSpec == SelInit /\ [][AggNext]_vars

----------------------------------------------------------------------------
(* Vocabulary of the properties *)

Loaded == chartData # NullObject

\* the window [startDate, endDate] of the memo run that built chartData
startDate == startDateOf(commits, timeRange, endDate, tz)

WellFormedWindow == Loaded /\ startDate <= endDate

InWindow(commit) == commit.date >= startDate /\ commit.date <= endDate

\* the positions of the held commits that satisfy P
Positions(P(_)) == {i \in 1..Len(commits) : P(commits[i])}

\* the local calendar days of the window, first to last
firstDay == LocalDay(startDate, tz)
lastDay == LocalDay(endDate, tz)
WindowDay(i) == firstDay + i - 1

\* the label the chart shows for the bucket of local day z
LabelOfDay(z) == formatLabel(newDateISO(CivilFromDays(z)), tz)

\* the sum of the counts of a daily series
RECURSIVE SumRange(_, _, _)
SumRange(series, lo, hi) ==
  IF lo > hi THEN 0
  ELSE IF lo = hi THEN series[lo].commits
  ELSE LET mid == (lo + hi) \div 2
       IN SumRange(series, lo, mid) + SumRange(series, mid + 1, hi)

SumCommits(series) == SumRange(series, 1, Len(series))

\* the sum of totalCommits over the contributor summaries
RECURSIVE SumTotals(_)
SumTotals(list) ==
  IF list = <<>> THEN 0 ELSE Head(list).totalCommits + SumTotals(Tail(list))

\* the sum of the daily counts of all contributor summaries
RECURSIVE SumDailies(_)
SumDailies(list) ==
  IF list = <<>> THEN 0 ELSE SumCommits(Head(list).dailyCommits) + SumDailies(Tail(list))

Logins == {commits[i].login : i \in Positions(hasAuthor)}

----------------------------------------------------------------------------
(* The global daily series *)

\* C1: whenever the aggregator has produced a result, the counts of the
\* global daily series add up to the number of held commits whose author
\* date lies in [startDate, endDate]; commits outside add nothing.
C1_SumIsWindowCount ==
  Loaded => SumCommits(chartData.allCommits) = Cardinality(Positions(InWindow))

\* C1 witness: an "all time" result where one commit is earlier than the
\* window start but on the start's calendar day, and another is counted.
C1_Witness ==
  /\ Loaded
  /\ \E i \in 1..Len(commits) :
        /\ commits[i].date < startDate
        /\ LocalDay(commits[i].date, tz) = firstDay
  /\ SumCommits(chartData.allCommits) >= 1

\* C2 (as claimed): for every window with start <= end the global series has
\* one entry per calendar day of the window, daysBetween + 1 in all, no two
\* entries carry the same label, and each entry's label is the day after
\* its predecessor's.
C2_OnePerDayUnique ==
  WellFormedWindow =>
    LET series == chartData.allCommits
    IN /\ Len(series) = lastDay - firstDay + 1
       /\ \A i, j \in 1..Len(series) : i # j => series[i].date # series[j].date
       /\ \A i \in 1..(Len(series) - 1) :
            \E z \in firstDay..lastDay :
              series[i].date = LabelOfDay(z) /\ series[i + 1].date = LabelOfDay(z + 1)

\* a series lists the window's days first to last
Ascending(series) ==
  /\ Len(series) = lastDay - firstDay + 1
  /\ \A i \in 1..Len(series) : series[i].date = LabelOfDay(WindowDay(i))

\* C3 (as claimed): for every window with start <= end, the global series
\* and every contributor's series are in ascending order of calendar date.
C3_AscendingByDate ==
  WellFormedWindow =>
    /\ Ascending(chartData.allCommits)
    /\ \A k \in 1..Len(chartData.contributors) :
         Ascending(chartData.contributors[k].dailyCommits)

----------------------------------------------------------------------------
(* The contributor summaries *)

\* C4: the totalCommits of all contributor summaries add up to at most the
\* number of held commits, and to exactly that number if and only if every
\* held commit has an author login.
C4_TotalsBound ==
  Loaded =>
    /\ SumTotals(chartData.contributors) <= Len(commits)
    /\ (SumTotals(chartData.contributors) = Len(commits))
         <=> (\A i \in 1..Len(commits) : hasAuthor(commits[i]))

\* C4 witness: a result with a contributor summary whose totals fall short of
\* the number of commits because a commit has no login.
C4_Witness ==
  /\ Loaded
  /\ Len(chartData.contributors) >= 1
  /\ \E i \in 1..Len(commits) : ~hasAuthor(commits[i])
  /\ SumTotals(chartData.contributors) < Len(commits)

\* C5 (as claimed): every contributor summary has strictly more totalCommits
\* than the one after it.
C5_StrictlyDescending ==
  Loaded =>
    \A k \in 1..(Len(chartData.contributors) - 1) :
      chartData.contributors[k].totalCommits > chartData.contributors[k + 1].totalCommits

\* C5 (amended): every contributor summary has at least as many totalCommits
\* as the one after it.
C5_Descending ==
  Loaded =>
    \A k \in 1..(Len(chartData.contributors) - 1) :
      chartData.contributors[k].totalCommits >= chartData.contributors[k + 1].totalCommits

\* C5 witness: the login that occurs first in the commit list has fewer
\* commits than another, and comes after it in the result.
C5_Witness ==
  /\ Loaded
  /\ Len(chartData.contributors) = 2
  /\ hasAuthor(commits[1])
  /\ chartData.contributors[2].login = commits[1].login
  /\ chartData.contributors[1].totalCommits > chartData.contributors[2].totalCommits

\* the number of held commits of a login
CommitsOf(login) ==
  Cardinality({i \in 1..Len(commits) : hasAuthor(commits[i]) /\ commits[i].login = login})

\* the contributor summaries' <<login, totalCommits>> pairs
Totals(data) ==
  {<<data.contributors[k].login, data.contributors[k].totalCommits>> :
     k \in 1..Len(data.contributors)}

\* C6: a step that changes the selected time window and leaves the commit
\* list alone leaves every contributor's totalCommits as it was, the number
\* of that login's commits in the whole list.
C6_TotalsIgnoreWindow ==
  [][(Loaded /\ timeRange' # timeRange /\ commits' = commits) =>
       /\ Totals(chartData') = Totals(chartData)
       /\ \A p \in Totals(chartData) : p[2] = CommitsOf(p[1])]_vars

\* C6 witness: under a window other than "all time", a contributor has more
\* totalCommits than its daily series counts.
C6_Witness ==
  /\ Loaded
  /\ timeRange # "all_time"
  /\ \E k \in 1..Len(chartData.contributors) :
        chartData.contributors[k].totalCommits
          > SumCommits(chartData.contributors[k].dailyCommits)

\* C7: commits without an author login are counted by the global series when
\* in the window, but by no contributor summary: no summary is keyed by the
\* missing login, the contributors' daily counts fall short of the global
\* ones by exactly the in-window commits without login, and the totals count
\* exactly the commits that have one.
C7_NoLoginOnlyGlobal ==
  Loaded =>
    /\ \A k \in 1..Len(chartData.contributors) : chartData.contributors[k].login # NoAuthor
    /\ SumCommits(chartData.allCommits) - SumDailies(chartData.contributors)
         = Cardinality({i \in Positions(InWindow) : ~hasAuthor(commits[i])})
    /\ SumTotals(chartData.contributors) = Cardinality(Positions(hasAuthor))

\* C7 witness: the only held commit has no login and is in the window; it is
\* counted by the global series and there is no contributor summary.
C7_Witness ==
  /\ Loaded
  /\ Len(commits) = 1
  /\ ~hasAuthor(commits[1])
  /\ InWindow(commits[1])
  /\ SumCommits(chartData.allCommits) = 1
  /\ chartData.contributors = <<>>

\* the global pipeline applied to a commit list over the window of chartData
SeriesOver(list) ==
  seriesOf(countInto(zeroDateMap(eachDayOfInterval(startDate, endDate, tz), tz),
                     SelectSeq(list, InWindow), tz),
           tz, dateParse)

\* C8: each contributor's daily series is the daily series of that login's
\* commits alone over the same window, and carries the global series' labels
\* in the global series' order.
C8_ContributorSeries ==
  Loaded =>
    \A k \in 1..Len(chartData.contributors) :
      LET c == chartData.contributors[k]
      IN /\ c.dailyCommits = SeriesOver(SelectSeq(commits, LAMBDA commit : commit.login = c.login))
         /\ Len(c.dailyCommits) = Len(chartData.allCommits)
         /\ \A i \in 1..Len(c.dailyCommits) :
              /\ c.dailyCommits[i].date = chartData.allCommits[i].date
              /\ c.dailyCommits[i].commits <= chartData.allCommits[i].commits

\* C8 witness: two contributors, one with a commit in the window and the
\* global series counting a commit that is not the other's.
C8_Witness ==
  /\ Loaded
  /\ Len(chartData.contributors) = 2
  /\ Len(chartData.allCommits) >= 2
  /\ SumCommits(chartData.contributors[1].dailyCommits) >= 1
  /\ SumCommits(chartData.allCommits) > SumCommits(chartData.contributors[1].dailyCommits)

\* C9: there is exactly one contributor summary for each login that occurs
\* in the held commit list, whether or not its commits are in the window.
C9_OnePerLogin ==
  Loaded =>
    /\ {chartData.contributors[k].login : k \in 1..Len(chartData.contributors)} = Logins
    /\ Len(chartData.contributors) = Cardinality(Logins)

\* C9 witness: a login with two commits under different display names, none
\* of them in the window, has its one summary.
C9_Witness ==
  /\ Loaded
  /\ \E i, j \in 1..Len(commits) :
        /\ hasAuthor(commits[i])
        /\ commits[i].login = commits[j].login
        /\ commits[i].name # commits[j].name
        /\ \A n \in 1..Len(commits) : commits[n].login = commits[i].login => ~InWindow(commits[n])
        /\ \E k \in 1..Len(chartData.contributors) :
              chartData.contributors[k].login = commits[i].login

----------------------------------------------------------------------------
(* The window *)

\* C10: under "this week" the window starts at local midnight of the most
\* recent Monday at or before the moment of aggregation, and the global
\* series counts no commit of an earlier day, the Sunday before included.
C10_WeekStartsMonday ==
  (Loaded /\ timeRange = "this_week") =>
    /\ startDate = LocalMidnight(firstDay, tz)
    /\ GetDay(firstDay) = 1
    /\ startDate <= endDate
    /\ lastDay - firstDay <= 6
    /\ SumCommits(chartData.allCommits)
         = Cardinality({i \in 1..Len(commits) :
                          /\ LocalDay(commits[i].date, tz) >= firstDay
                          /\ commits[i].date <= endDate})

\* C10 witness: the aggregation ran on a Wednesday, a commit is dated the
\* Sunday before the week's Monday, less than 7 days earlier, and it is the
\* only commit, counted nowhere.
C10_Witness ==
  /\ Loaded
  /\ timeRange = "this_week"
  /\ GetDay(lastDay) = 3
  /\ Len(commits) = 1
  /\ LocalDay(commits[1].date, tz) = firstDay - 1
  /\ GetDay(LocalDay(commits[1].date, tz)) = 0
  /\ endDate - commits[1].date < 7 * TicksPerDay
  /\ SumCommits(chartData.allCommits) = 0

----------------------------------------------------------------------------
(* The windows *)

\* the earliest author date among the held commits
EarliestDate == CHOOSE d \in {commits[i].date : i \in 1..Len(commits)} :
                  \A i \in 1..Len(commits) : d <= commits[i].date

\* C11 (as claimed): under "all time" the window starts at the author date
\* of the chronologically earliest held commit, whatever the order of the
\* list, so every held commit dated at or before the end is in the window.
C11_AllTimeFromEarliest ==
  (Loaded /\ timeRange = "all_time") =>
    /\ startDate = EarliestDate
    /\ \A i \in 1..Len(commits) : commits[i].date <= endDate => InWindow(commits[i])

\* C12: under "this month" the window starts at the local midnight of the
\* first calendar day of the end's month and ends at the `now` of the run,
\* and the global series has one bucket for each day from the 1st through
\* today, which together count the held commits dated in that window.
C12_ThisMonth ==
  (Loaded /\ timeRange = "this_month") =>
    LET today == LocalDay(endDate, tz)
        first == LocalMidnight(today - (CivilFromDays(today)[3] - 1), tz)
    IN /\ startDate = first
       /\ endDate \in Now0..now
       /\ Len(chartData.allCommits) = CivilFromDays(today)[3]
       /\ SumCommits(chartData.allCommits) =
            Cardinality({i \in 1..Len(commits) :
                           commits[i].date >= first /\ commits[i].date <= endDate})

\* C12 witness: a "this month" result computed after time has passed, with
\* several buckets, a commit counted and a commit of an earlier month left out.
C12_Witness ==
  /\ Loaded
  /\ timeRange = "this_month"
  /\ endDate > Now0
  /\ Len(chartData.allCommits) >= 2
  /\ SumCommits(chartData.allCommits) >= 1
  /\ \E i \in 1..Len(commits) : commits[i].date < startDate

C15_MalformedRecordFails ==
  (\E i \in 1..Len(commits) : ~hasDate(commits[i])) => "allCommits" \notin DOMAIN chartData

----------------------------------------------------------------------------
(* The server action fetchCommits *)

\* the answer is an HTTP response with this status
HasStatus(answer, status) == "status" \in DOMAIN answer /\ answer.status = status

\* the answer is a 403 whose JSON body has a message with 'rate limit exceeded'
RateLimited(answer) ==
  /\ HasStatus(answer, 403)
  /\ "message" \in DOMAIN answer.body
  /\ includesRateLimitExceeded(answer.body.message)

\* C16: every call of fetchCommits resolves (it never rejects) to an object
\* with exactly one of `commits` and `error`; it has `commits` exactly when
\* GitHub answered with an OK status and a JSON body; its error is the
\* not-found text exactly for a 404, the rate-limit text exactly for a 403
\* whose message contains 'rate limit exceeded', and another text for every
\* other non-OK status and for a thrown network error.
C16_FetchCommitsResolves ==
  result # NullObject =>
    /\ DOMAIN result \in {{"commits"}, {"error"}}
    /\ ("commits" \in DOMAIN result) <=>
         (HasStatus(response, 200) /\ response.body.json)
    /\ ("error" \in DOMAIN result) =>
         /\ (result.error = NotFoundError) <=> HasStatus(response, 404)
         /\ (result.error = RateLimitError) <=> RateLimited(response)

\* C16 witness: a call answered by a 403 whose body is not JSON has resolved
\* to the generic network error.
C16_Witness ==
  /\ result # NullObject
  /\ HasStatus(response, 403)
  /\ ~response.body.json
  /\ result = [error |-> NetworkError]

----------------------------------------------------------------------------
(* The rewrite dialog and the aggregator *)

\* C17: every step of the AI rewrite (a click on a commit's button, the
\* request succeeding or failing, the dialog being dismissed or closed, a
\* copy and its timer) leaves the held commit list, the selected time window
\* and the aggregator output as they were.
C17_RewriteLeavesAggregator ==
  [][RewriteStep => UNCHANGED <<commits, timeRange, chartData, endDate>>]_vars

\* C17 witness: with an aggregator result for a window the user chose, a
\* rewrite has been requested, answered and copied.
C17_Witness ==
  /\ Loaded
  /\ timeRange # "all_time"
  /\ dialogOpen
  /\ rewriteData # NullObject
  /\ copied

----------------------------------------------------------------------------
(* The held commit list *)

\* the lists a single successful fetch of a fetch in flight can return
Returnable == UNION { Responses(inflight[i].owner, inflight[i].repo) : i \in 1..Len(inflight) }

\* C18: a run of the aggregator never changes its input: on every step that
\* replaces the aggregator output or changes the window, the held commit
\* list stays as it was, record for record, unless the step is the one that
\* stores a new list, and then the list stored is the empty list of a
\* submission or exactly a list a fetch in flight returned.
C18_InputNotMutated ==
  [][(chartData' # chartData \/ timeRange' # timeRange) =>
       \/ commits' = commits
       \/ commits' = <<>> /\ repoInfo' = NullObject /\ timeRange' = timeRange
       \/ commits' \in Returnable /\ Len(inflight') < Len(inflight)]_vars

\* C18 witness: a fetched list of several commits is held and the
\* aggregator has run on it again for another window.
C18_Witness ==
  /\ Loaded
  /\ Len(commits) >= 2
  /\ timeRange # "all_time"
  /\ inflight = <<>>

FetchedLists ==
  UNION { Responses(pathParts(repoUrl)[1], stripGit(pathParts(repoUrl)[2])) :
            repoUrl \in {u \in Urls : Len(pathParts(u)) >= 2} }

\* C20: in every state the held commit list is empty or exactly the list one
\* successful fetch returned, never commits of two fetches together; and
\* every submission starts by clearing the list.
C20_WholesaleReplace ==
  /\ [](commits = <<>> \/ commits \in FetchedLists)
  /\ [][(\E repoUrl \in Urls : Submit(repoUrl)) => commits' = <<>>]_vars
  /\ [][commits' # commits => (commits' = <<>> \/ commits' \in Returnable)]_vars

\* C20 witness: a fetch has stored its commits while another fetch, of
\* another repository, is still in flight.
C20_Witness ==
  /\ commits # <<>>
  /\ \E i \in 1..Len(inflight) : inflight[i].repo # repoInfo.repo

----------------------------------------------------------------------------
(* Errors, and the output against its inputs *)

C22_OutputMatchesInputs ==
  /\ Loaded <=> commits # <<>>
  /\ Loaded => /\ endDate \in Now0..now
               /\ chartData = chartDataOf(commits, timeRange, endDate, tz, dateParse)

\* C22 witness: after a fetch replaced the held list and the window was
\* changed, an output is present whose window is not the initial one.
C22_Witness ==
  /\ Loaded
  /\ timeRange = "this_week"
  /\ location = "https://github.com/o/r2.git"
  /\ repoInfo.repo = "r2"
  /\ SumCommits(chartData.allCommits) >= 1

\* C23 (as claimed): when the commit list is empty the aggregator returns a
\* daily series of exactly one bucket, for now's day, with count 0, and an
\* empty contributors list.
C23_EmptyYieldsOneBucket ==
  commits = <<>> =>
    /\ "allCommits" \in DOMAIN chartData
    /\ Len(chartData.allCommits) = 1
    /\ chartData.allCommits[1] = [date |-> formatLabel(now, tz), commits |-> 0]
    /\ chartData.contributors = <<>>

\* C23 (amended): when the commit list is empty the aggregator returns null
\* under every time window: there is no daily series and no contributors
\* list at all.
C23_EmptyYieldsNull ==
  commits = <<>> => (chartData = NullObject /\ DOMAIN chartData = {"null"})

\* C23 witness: the aggregator has run on the empty list under a window
\* other than the initial one.
C23_Witness ==
  /\ commits = <<>>
  /\ timeRange = "this_week"
  /\ chartData = chartDataOf(commits, timeRange, now, tz, dateParse)

\* the held commits of a login, in list order
OwnCommits(login) ==
  SelectSeq(commits, LAMBDA commit : hasAuthor(commit) /\ commit.login = login)

\* C24 (as claimed): when commits of one login carry different display names
\* or avatars, the contributor's name and avatar are those of the commit of
\* that login that comes last in the held list.
C24_NameOfLastCommit ==
  Loaded => \A k \in 1..Len(chartData.contributors) :
    LET contributor == chartData.contributors[k]
        own == OwnCommits(contributor.login)
    IN /\ contributor.name = own[Len(own)].name
       /\ contributor.avatar_url = own[Len(own)].avatar_url

\* C24 (amended): the contributor's name and avatar are those of the commit
\* of that login that comes first in the held list (the list is newest
\* first, so this is the login's most recent commit); later commits of the
\* login only add to totalCommits.
C24_NameOfFirstCommit ==
  Loaded => \A k \in 1..Len(chartData.contributors) :
    LET contributor == chartData.contributors[k]
        own == OwnCommits(contributor.login)
    IN /\ contributor.name = own[1].name
       /\ contributor.avatar_url = own[1].avatar_url

\* C24 witness: a login whose first and last commit carry different names has
\* been summarised after the window was changed.
C24_Witness ==
  /\ Loaded
  /\ timeRange = "this_month"
  /\ \E k \in 1..Len(chartData.contributors) :
       LET own == OwnCommits(chartData.contributors[k].login)
       IN Len(own) >= 2 /\ own[1].name # own[Len(own)].name

----------------------------------------------------------------------------
(* Overlapping rewrite requests *)

\* C25 (as claimed): whenever the dialog displays a result (a commit is
\* selected, isRewriting is false and rewriteData is present), that result
\* was produced for the selected commit.
C25_ShownResultIsForSelected ==
  (dialogOpen /\ ~isRewriting /\ rewriteData # NullObject) =>
    rewriteData.original = <<"message of", selectedCommit.sha>>

\* C26 (as claimed): isRewriting is true in every state in which at least one
\* rewrite request is outstanding.
C26_FlagWhileOutstanding ==
  rewrites # <<>> => isRewriting

\* C27 (as claimed, its part on failures): when a rewrite request settles
\* with an error or rejects, then afterwards isRewriting is false, no commit
\* is selected and rewriteData is null.
C27_FailureLeavesNoResult ==
  [][RewriteFails => (~isRewriting' /\ selectedCommit' = NullObject /\ rewriteData' = NullObject)]_vars

----------------------------------------------------------------------------
(* The server action rewriteCommitWithAI *)

\* the commit-details request came back OK with a JSON body of a commit
DetailsArrived(answer) ==
  /\ HasStatus(answer, 200)
  /\ answer.body.json
  /\ "commit" \in DOMAIN answer.body

\* the patches of the answer, concatenated with newlines, are not the empty
\* string: there are two files or more, or one file with a non-empty patch
HasDiff(answer) ==
  /\ "files" \in DOMAIN answer.body
  /\ \/ Len(answer.body.files) >= 2
     \/ \E i \in 1..Len(answer.body.files) : answer.body.files[i] \notin {NULL, ""}

\* C28 (as claimed): every call of rewriteCommitWithAI resolves, and never
\* rejects, to an object carrying either `error` or both `rewrittenMessage`
\* and `originalMessage`, whatever the GitHub request and the AI call do.
C28_RewriteAlwaysResolves ==
  result # NullObject =>
    /\ "throws" \notin DOMAIN result.settled
    /\ DOMAIN result.settled \in {{"error"}, {"rewrittenMessage", "originalMessage"}}

----------------------------------------------------------------------------
(* The repository and its commits *)

\* the sha names a commit of a list the repository (owner, repo) returns
ShaBelongsTo(sha, owner, repo) ==
  \E list \in Responses(owner, repo) : \E k \in 1..Len(list) : list[k].sha = sha

\* C30: in every state repoInfo is non-null only if a fetch for repoInfo's
\* (owner, repo) succeeded, and then the held commit list is the list that
\* same fetch returned (with repoInfo null no commits are held); repoInfo and
\* the list are stored together by the one fetch that succeeded, so commits
\* of one repository are never held with the repoInfo of another, and every
\* rewrite request carries a sha of the repository it is sent to.
C30_RepoMatchesCommits ==
  /\ [](IF repoInfo = NullObject THEN commits = <<>>
        ELSE commits \in Responses(repoInfo.owner, repoInfo.repo))
  /\ [](\A i \in 1..Len(rewrites) :
          ShaBelongsTo(rewrites[i].sha, rewrites[i].owner, rewrites[i].repo))
  /\ [][(repoInfo' # NullObject /\ <<repoInfo', commits'>> # <<repoInfo, commits>>) =>
          \E i \in 1..Len(inflight) :
            /\ repoInfo' = inflight[i]
            /\ inflight' = Without(inflight, i)
            /\ commits' \in Responses(inflight[i].owner, inflight[i].repo)]_vars

\* C30 witness: while a rewrite request for a commit of one repository is
\* outstanding, the commits of another repository have been fetched and are
\* held, with a fetch still in flight.
C30_Witness ==
  /\ repoInfo # NullObject
  /\ repoInfo.repo = "r2"
  /\ commits # <<>>
  /\ inflight # <<>>
  /\ \E i \in 1..Len(rewrites) : rewrites[i].repo = "r1"

====
